---- MODULE Spec2Model ----
(***************************************************************************)
(* Model of the client side of youtube-video-downloader-v2:                *)
(*   - QualitySelector's qualityOptions memo (buildOptions),               *)
(*   - Downloader's downloadBlob transfer (primary XHR, proxy fallback),   *)
(*   - Downloader's session: fetchVideoInfo, downloadVideo, cancelDownload,*)
(*     initFFmpeg and mergeWithFFmpeg.                                     *)
(***************************************************************************)
EXTENDS Integers, Sequences, FiniteSets, TLC

(***************************************************************************)
(* Bounds                                                                  *)
(***************************************************************************)
\* longest catalog enumerated exhaustively for the quality selector
MaxFormats == 3

\* most bytes a transfer of unknown length reports in its progress events
MaxLoaded == 1

\* download attempts (downloadVideo calls) followed in one session
MaxAttempts == 2

\* symbols enumerated before and after the id run of a url parameter
MaxAffix == 2

\* streams in the list the resolution service returns
MaxCandidates == 2

VARIABLES
  videoInfo,          \* Downloader state videoInfo (Null or a VideoInfo)
  progress,           \* Downloader state progress: [stage, progress]
  error,              \* Downloader state error (Null or a message)
  isLoading,          \* Downloader state isLoading
  infoPc,             \* "idle", or "pending" while axios.get(/api/info) runs
  ffmpegRef,          \* ffmpegRef.current: 0 (null) or 1 (the FFmpeg instance)
  engine,             \* the FFmpeg instance: load state, load() calls, files
  abortControllerRef, \* abortControllerRef.current: 0 (null) or a controller
  attempts,           \* per downloadVideo call: where it is suspended
  started,            \* number of downloadVideo calls so far
  blob,             \* downloadBlob called on its own: the transfer's record
  blobSignal,       \* its signal argument: 0 (undefined) or a controller id
  aborted,          \* AbortControllers whose abort() has been called
  formats,          \* QualitySelector props.formats (selector on its own)
  qualityOptions,   \* QualitySelector's memoised option list
  selectorPc,       \* "mounted" before the memo has run, "rendered" after
  selectedFormat,   \* Downloader state selectedFormat (Null or a VideoFormat)
  info,             \* one GET /api/info request being served
  relay             \* one GET /api/download request being served

blobVars == <<blob, blobSignal>>

sessionVars ==
  <<videoInfo, progress, error, isLoading, infoPc, ffmpegRef, engine,
    abortControllerRef, attempts, started>>

selectorVars == <<formats, qualityOptions, selectorPc>>

serverVars == <<info, relay>>

\* JavaScript null / undefined
Null == [null |-> TRUE]

(***************************************************************************)
(* VideoFormat (src/types/video.ts)                                        *)
(***************************************************************************)
\* an optional numeric field (height?, bitrate?) that is absent
Missing == -1

Heights == {Missing, 720, 1080}

Bitrates == {Missing, 64000, 128000}

\* the (hasVideo, hasAudio, height, bitrate) combinations a catalog entry takes;
\* parseFormat lets both flags be false
FormatKinds ==
  {<<FALSE, TRUE, Missing, b>> : b \in Bitrates}
  \cup {<<TRUE, ha, h, b>> : ha \in BOOLEAN, h \in Heights, b \in Bitrates}
  \cup {<<FALSE, FALSE, Missing, Missing>>}

\* `x || 0` on an optional number
OrZero(x) == IF x = Missing \/ x = 0 THEN 0 ELSE x

\* a VideoFormat reduced to the fields the selector and the downloader read
VideoFormat(i, hv, ha, h, b) ==
  [itag |-> i, hasVideo |-> hv, hasAudio |-> ha, height |-> h, bitrate |-> b]

(***************************************************************************)
(* QualitySelector.qualityOptions                                          *)
(***************************************************************************)
\* slip: ascending instead of descending bitrate
AudioCompare_Ascending(a, b) == OrZero(a.bitrate) - OrZero(b.bitrate)

\* (a, b) => (b.bitrate || 0) - (a.bitrate || 0)
AudioCompare(a, b) == OrZero(b.bitrate) - OrZero(a.bitrate)

\* slip: no bitrate tie-break within a height
VideoCompare_HeightOnly(a, b) == OrZero(b.height) - OrZero(a.height)

\* height descending, then bitrate descending
VideoCompare(a, b) ==
  IF OrZero(a.height) # OrZero(b.height)
    THEN OrZero(b.height) - OrZero(a.height)
    ELSE OrZero(b.bitrate) - OrZero(a.bitrate)

\* slip: ascending instead of descending bitrate for bestAudio
BestAudioCompare_Ascending(a, b) == OrZero(a.bitrate) - OrZero(b.bitrate)

\* downloadVideo's own comparator for bestAudio
BestAudioCompare(a, b) == OrZero(b.bitrate) - OrZero(a.bitrate)

\* the comparator passed to sort() at each call site
Compare(site, a, b) ==
  IF site = "audio" THEN AudioCompare(a, b)
  ELSE IF site = "bestAudio" THEN BestAudioCompare(a, b)
  ELSE VideoCompare(a, b)

(***************************************************************************)
(* Array.prototype.sort: a stable sort by a comparator.  The element at    *)
(* index i lands behind every element that compares smaller and behind     *)
(* every equal element that preceded it.                                   *)
(***************************************************************************)
SortRank(s, i, site) ==
  Cardinality({j \in 1..Len(s) :
                 \/ Compare(site, s[j], s[i]) < 0
                 \/ (Compare(site, s[j], s[i]) = 0 /\ j < i)})

StableSort(s, site) ==
  [k \in 1..Len(s) |-> s[CHOOSE i \in 1..Len(s) : SortRank(s, i, site) = k - 1]]

audioFormats(fs) ==
  StableSort(SelectSeq(fs, LAMBDA f : f.hasAudio /\ ~f.hasVideo), "audio")

videoFormats(fs) ==
  StableSort(SelectSeq(fs, LAMBDA f : f.hasVideo), "video")

\* slip: key on the height alone
DedupKey_HeightOnly(format) == <<OrZero(format.height), TRUE>>

\* `${format.height || 0}-${format.hasAudio}`
DedupKey(format) == <<OrZero(format.height), format.hasAudio>>

AudioOption(bestAudio) ==
  [value |-> <<"audio", bestAudio.itag>>, format |-> bestAudio,
   requiresMerge |-> FALSE, group |-> "audio"]

VideoOption(format) ==
  [value |-> <<"video", format.itag>>, format |-> format,
   requiresMerge |-> ~format.hasAudio, group |-> "video"]

\* the for-loop over videoFormats with the `seen` set
RECURSIVE VideoWalk(_, _)
VideoWalk(sorted, seen) ==
  IF sorted = <<>> THEN <<>>
  ELSE IF DedupKey(Head(sorted)) \in seen
    THEN VideoWalk(Tail(sorted), seen)
    ELSE <<VideoOption(Head(sorted))>>
           \o VideoWalk(Tail(sorted), seen \cup {DedupKey(Head(sorted))})

buildOptions(fs) ==
  (IF Len(audioFormats(fs)) > 0
     THEN <<AudioOption(audioFormats(fs)[1])>>
     ELSE <<>>)
  \o VideoWalk(videoFormats(fs), {})

(***************************************************************************)
(* /api/info: extractVideoId.  A string is a sequence of symbols: single   *)
(* characters, and the text "youtu.be/" kept as one symbol (the short-link *)
(* alternative of the first pattern; it holds '.' and '/', so it is        *)
(* outside the id class and inside the capture class).                     *)
(***************************************************************************)
\* the quantifier of [a-zA-Z0-9_-]{11}
IdLength == 11

\* the members of [a-zA-Z0-9_-] that occur in the inputs
IdClass == {"a", "h", "l", "n", "o", "r", "s", "t", "u"}

\* the characters [^&\n?#] excludes
Terminators == {"&", "?", "#", "\n"}

ShortLink == "youtu.be/"

\* /^[a-zA-Z0-9_-]{11}$/
IsVideoIdShape(s) ==
  /\ Len(s) = IdLength
  /\ \A i \in 1..Len(s) : s[i] \in IdClass

\* positions where (?:...youtu\.be\/...)([^&\n?#]+) can match
UrlMatches(s) ==
  {i \in 1..Len(s) : s[i] = ShortLink /\ i < Len(s) /\ s[i + 1] \notin Terminators}

\* the greedy capture [^&\n?#]+ starting at position i
RECURSIVE CaptureFrom(_, _)
CaptureFrom(s, i) ==
  IF i > Len(s) \/ s[i] \in Terminators
    THEN <<>>
    ELSE <<s[i]>> \o CaptureFrom(s, i + 1)

NoMatch == [matched |-> FALSE, id |-> <<>>]

Match(id) == [matched |-> TRUE, id |-> id]

\* the patterns in order, the leftmost match of each: match[1] or null
extractVideoId(url) ==
  IF UrlMatches(url) # {}
    THEN Match(CaptureFrom(url, 1 + CHOOSE i \in UrlMatches(url) :
                                       \A j \in UrlMatches(url) : i <= j))
  ELSE IF IsVideoIdShape(url) THEN Match(url)
  ELSE NoMatch

(***************************************************************************)
(* /api/info: parseFormat and the formats filter.  A candidate is a        *)
(* ytdl.videoFormat reduced to the fields read; "none" is undefined.       *)
(***************************************************************************)
Candidate(i, url, mimeType, container, hv, ha) ==
  [itag |-> i, url |-> url, mimeType |-> mimeType, container |-> container,
   hasVideo |-> hv, hasAudio |-> ha]

\* url: an https address, empty, undefined, or a non-http scheme
CandidateUrls == {"https", "", "none", "blob"}

\* (mimeType, container) combinations
CandidateMedia ==
  {<<"video/mp4", "mp4">>, <<"image/webp", "mp4">>, <<"none", "webp">>, <<"none", "none">>}

\* (hasVideo, hasAudio) combinations
CandidateFlags ==
  {<<"true", "true">>, <<"true", "false">>, <<"false", "true">>,
   <<"false", "false">>, <<"none", "none">>}

\* what the resolution service returns per stream: every flag combination on
\* a playable mp4 stream, every url / media combination on a muxed stream
CandidateKinds ==
  {<<"https", m, f>> : m \in {<<"video/mp4", "mp4">>}, f \in CandidateFlags}
  \cup {<<u, m, f>> : u \in CandidateUrls, m \in CandidateMedia, f \in {<<"true", "true">>}}

CandidatesOf(kinds) ==
  [i \in 1..Len(kinds) |->
     Candidate(i, kinds[i][1], kinds[i][2][1], kinds[i][2][2],
               kinds[i][3][1], kinds[i][3][2])]

\* `x || dflt` on an optional string
OrDefault(x, dflt) == IF x = "none" \/ x = "" THEN dflt ELSE x

\* `x || false` on an optional boolean
OrFalse(x) == x = "true"

\* parseFormat, the fields read by the filter and the client
parseFormat(format) ==
  [itag |-> format.itag,
   url |-> format.url,
   mimeType |-> OrDefault(format.mimeType, ""),
   container |-> OrDefault(format.container, "mp4"),
   hasVideo |-> OrFalse(format.hasVideo),
   hasAudio |-> OrFalse(format.hasAudio)]

\* format.mimeType?.includes('webp') || format.container === 'webp'
isWebP(format) == format.mimeType = "image/webp" \/ format.container = "webp"

\* format.url && format.url.length > 0 && format.url.startsWith('http')
hasValidUrl(format) == format.url = "https"

\* slip: the address is not looked at
KeepFormat_WebPOnly(format) == ~isWebP(format)

\* the filter callback
KeepFormat(format) == ~isWebP(format) /\ hasValidUrl(format)

\* info.formats.map(parseFormat).filter(...)
ParsedFormats(candidates) ==
  SelectSeq([i \in 1..Len(candidates) |-> parseFormat(candidates[i])],
            LAMBDA f : KeepFormat(f))

(***************************************************************************)
(* /api/info: the answer to a rejected ytdl.getInfo.  A failure carries    *)
(* its statusCode and the searched texts its message contains; a message   *)
(* that contains 'Video unavailable' contains 'unavailable' as well.       *)
(***************************************************************************)
Failure(includes, statusCode) == [includes |-> includes, statusCode |-> statusCode]

ServiceFailures ==
  {
    Failure({"n transform"}, 0),
    Failure({"signature", "decipher"}, 0),
    Failure({"Private video"}, 0),
    Failure({"unavailable"}, 0),
    Failure({"Video unavailable", "unavailable"}, 0),
    Failure({"Video unavailable", "unavailable", "signature"}, 0),
    Failure({"Private video", "decipher"}, 0),
    Failure({"Private video"}, 429),
    Failure({"Sign in to confirm your age"}, 429),
    Failure({"Sign in to confirm your age"}, 0),
    Failure({"rate limit"}, 0),
    Failure({}, 429),
    Failure({}, 0)
  }

\* error.message?.includes(text)
Includes(failure, text) == text \in failure.includes

Answer(status, code, fs) == [status |-> status, error |-> code, formats |-> fs]

\* the catch block around ytdl.getInfo, in the order of its tests
InfoFailureAnswer(failure) ==
  IF Includes(failure, "n transform") \/ Includes(failure, "signature")
       \/ Includes(failure, "decipher")
    THEN Answer(500, "SIGNATURE_ERROR", <<>>)
  ELSE IF Includes(failure, "Private video") \/ Includes(failure, "unavailable")
    THEN Answer(403, "VIDEO_UNAVAILABLE", <<>>)
  ELSE IF Includes(failure, "Sign in to confirm your age")
    THEN Answer(403, "AGE_RESTRICTED", <<>>)
  ELSE IF Includes(failure, "Video unavailable")
    THEN Answer(404, "VIDEO_NOT_FOUND", <<>>)
  ELSE IF failure.statusCode = 429 \/ Includes(failure, "rate limit")
    THEN Answer(429, "RATE_LIMITED", <<>>)
  ELSE Answer(500, "FETCH_ERROR", <<>>)

\* slip: the captured id is handed to the service unvalidated
InfoInputError_NoIdCheck(hasUrl, url) ==
  IF ~hasUrl \/ url = <<>> THEN "MISSING_URL"
  ELSE IF ~extractVideoId(url).matched THEN "INVALID_URL"
  ELSE ""

\* the three early returns of GET: the error code, or "" when the input
\* passes
InfoInputError(hasUrl, url) ==
  IF ~hasUrl \/ url = <<>> THEN "MISSING_URL"
  ELSE IF ~extractVideoId(url).matched THEN "INVALID_URL"
  ELSE IF ~IsVideoIdShape(extractVideoId(url).id) THEN "INVALID_VIDEO_ID"
  ELSE ""

\* a request to /api/info: the url parameter (absent when hasUrl is FALSE)
InfoRequest(hasUrl, url) ==
  [pc |-> "received", hasUrl |-> hasUrl, url |-> url, videoId |-> <<>>,
   getInfoCalls |-> 0, candidates |-> <<>>, rejected |-> FALSE,
   failure |-> Failure({}, 0), answer |-> Answer(0, "", <<>>)]

NoInfoRequest == [InfoRequest(FALSE, <<>>) EXCEPT !.pc = "none"]

(***************************************************************************)
(* /api/download: the proxy relay                                          *)
(***************************************************************************)
\* what downloadFromInfo throws: statusCode, cause.statusCode, and whether
\* the message contains '403'
StreamError(statusCode, causeStatusCode, mentions403) ==
  [statusCode |-> statusCode, causeStatusCode |-> causeStatusCode,
   mentions403 |-> mentions403]

StreamErrors ==
  {StreamError(403, 0, FALSE), StreamError(0, 403, FALSE),
   StreamError(0, 0, TRUE), StreamError(0, 0, FALSE), StreamError(500, 0, FALSE)}

\* streamError?.statusCode === 403 || streamError?.cause?.statusCode === 403
\*   || streamError?.message?.includes('403')
IsAccessDenied(streamError) ==
  \/ streamError.statusCode = 403
  \/ streamError.causeStatusCode = 403
  \/ streamError.mentions403

\* status of the response to fetch(format.url)
UpstreamStatuses == {200, 206, 403, 500}

\* the relay's response: status, error code ("" for a streamed body), the
\* path that produced the body, whether Content-Range is set
RelayAnswer(status, code, path, contentRange) ==
  [status |-> status, error |-> code, path |-> path, contentRange |-> contentRange]

\* `format` before info.formats.find has run, or when it finds nothing
NoFormat == Candidate(0, "none", "none", "none", "none", "none")

\* a request to /api/download.  upstreamRange tells whether the upstream
\* request of the serving path carried the Range header; directFetches
\* counts fetch(format.url); firstPath tells what became of downloadFromInfo
RelayRequest(hasVideoId, hasItag, itag, range) ==
  [pc |-> "received", hasVideoId |-> hasVideoId, hasItag |-> hasItag,
   itag |-> itag, range |-> range, format |-> NoFormat, firstPath |-> "none",
   upstreamRange |-> FALSE, directFetches |-> 0,
   answer |-> RelayAnswer(0, "", "none", FALSE)]

NoRelayRequest == [RelayRequest(FALSE, FALSE, 0, FALSE) EXCEPT !.pc = "none"]

\* no request is being served
ServerIdle ==
  /\ info = NoInfoRequest
  /\ relay = NoRelayRequest

(***************************************************************************)
(* downloadBlob: one transfer.  pc is "xhr" while the XMLHttpRequest is in *)
(* flight, "proxy" while fetch(proxyUrl) awaits the response, "proxyBody"  *)
(* while response.blob() is read, "settled" once the promise is resolved   *)
(* or rejected.  primary, proxy, proxyRequests, called and lastValue record*)
(* what happened (they are never read by the code).                        *)
(***************************************************************************)
\* declared total of the response body; 0 = not length-computable
Totals == {0, 2}

\* HTTP status the XMLHttpRequest ends with in onload (0 = opaque failure)
XhrStatuses == {200, 0, 403}

\* HTTP status of the /api/download response
ProxyStatuses == {200, 403}

Pending == [kind |-> "pending", name |-> "", message |-> "", status |-> 0]

Resolved == [kind |-> "resolved", name |-> "Blob", message |-> "", status |-> 0]

Rejected(name, message, status) ==
  [kind |-> "rejected", name |-> name, message |-> message, status |-> status]

\* new Promise(...) body up to xhr.send()
NewTransfer(key, signal, onProgress, total) ==
  [pc |-> "xhr", key |-> key, signal |-> signal, onProgress |-> onProgress,
   total |-> total, loaded |-> 0, result |-> Pending,
   primary |-> "pending", proxy |-> "none", proxyRequests |-> 0,
   called |-> FALSE, lastValue |-> 0]

\* resolve / reject settle the promise once; later calls are ignored
Settle(t, result) ==
  IF t.result.kind = "pending"
    THEN [t EXCEPT !.pc = "settled", !.result = result]
    ELSE t

\* fetch(proxyUrl, { signal })
StartProxy(t) ==
  [t EXCEPT !.pc = "proxy", !.proxy = "pending",
            !.proxyRequests = t.proxyRequests + 1]

\* slip: the callback is invoked whatever event.total is
XhrOnprogress_NoTotalCheck(t, loaded) ==
  IF t.onProgress
    THEN [t EXCEPT !.loaded = loaded, !.called = TRUE,
                   !.lastValue = IF t.total > 0 THEN (loaded * 100) \div t.total ELSE 100]
    ELSE [t EXCEPT !.loaded = loaded]

\* xhr.onprogress: (event.loaded / event.total) * 100 to onProgress
XhrOnprogress(t, loaded) ==
  IF t.onProgress /\ t.total > 0
    THEN [t EXCEPT !.loaded = loaded, !.called = TRUE,
                   !.lastValue = (loaded * 100) \div t.total]
    ELSE [t EXCEPT !.loaded = loaded]

\* slip: falls back to the proxy without looking at videoId / itag
XhrOnload_NoKeyCheck(t, status) ==
  IF status >= 200 /\ status < 300
    THEN Settle([t EXCEPT !.primary = "ok"], Resolved)
  ELSE IF status = 0
    THEN StartProxy([t EXCEPT !.primary = "status0"])
  ELSE Settle([t EXCEPT !.primary = "http_error"],
              Rejected("Error", "Failed to download", status))

\* xhr.onload
XhrOnload(t, status) ==
  IF status >= 200 /\ status < 300
    THEN Settle([t EXCEPT !.primary = "ok"], Resolved)
  ELSE IF status = 0
    THEN IF ~t.key
           THEN Settle([t EXCEPT !.primary = "status0"],
                       Rejected("Error", "CORS error: Video ID and itag are required", 0))
           ELSE StartProxy([t EXCEPT !.primary = "status0"])
  ELSE Settle([t EXCEPT !.primary = "http_error"],
              Rejected("Error", "Failed to download", status))

\* xhr.onerror
XhrOnerror(t) ==
  IF ~t.key
    THEN Settle([t EXCEPT !.primary = "network_error"],
                Rejected("Error", "Network error: Video ID and itag are required", 0))
    ELSE StartProxy([t EXCEPT !.primary = "network_error"])

\* first .then of the proxy fetch: !response.ok throws, else response.blob()
ProxyResponse(t, status) ==
  IF status >= 200 /\ status < 300
    THEN [t EXCEPT !.pc = "proxyBody"]
    ELSE Settle([t EXCEPT !.proxy = "failed"],
                Rejected("Error", "Server proxy failed", status))

\* the proxy fetch or response.blob() rejects on its own (connection lost)
ProxyNetworkFailure(t) ==
  Settle([t EXCEPT !.proxy = "failed"], Rejected("TypeError", "Failed to fetch", 0))

\* response.blob() resolves: .then(resolve)
ProxyBody(t) == Settle([t EXCEPT !.proxy = "payload"], Resolved)

\* slip: the listener aborts the XMLHttpRequest only, the proxy fetch runs on
AbortListener_XhrOnly(t) ==
  IF t.pc = "xhr"
    THEN Settle([t EXCEPT !.primary = "aborted"], Rejected("AbortError", "Aborted", 0))
    ELSE t

\* signal 'abort' listener: xhr.abort(); reject(new DOMException('Aborted',
\* 'AbortError')).  The fetch given the same signal is aborted with it.
AbortListener(t) ==
  IF t.pc = "xhr"
    THEN Settle([t EXCEPT !.primary = "aborted"], Rejected("AbortError", "Aborted", 0))
  ELSE IF t.pc \in {"proxy", "proxyBody"}
    THEN Settle([t EXCEPT !.proxy = "aborted"], Rejected("AbortError", "Aborted", 0))
  ELSE t

\* the values event.loaded can take after `loaded` bytes were reported
LoadedAfter(t) ==
  {l \in (t.loaded + 1)..(IF t.total > 0 THEN t.total ELSE MaxLoaded) : TRUE}

(***************************************************************************)
(* Downloader state as mounted                                             *)
(***************************************************************************)
Stage(st, pct) == [stage |-> st, progress |-> pct]

Message(m, tip) == [message |-> m, tip |-> tip]

\* new FFmpeg() is "created"; load() makes it "loading", then "loaded" or
\* "failed"
NoEngine == [state |-> "none", loadCalls |-> 0, files |-> {}]

\* an attempt slot before its downloadVideo call.  videoBlob / audioBlob tell
\* whether the constant of that name holds a payload; reported is the last
\* percentage the attempt passed to setProgress in stage downloading; clicks
\* lists the href of every anchor the attempt clicked.
NoAttempt ==
  [pc |-> "unused", t |-> NewTransfer(FALSE, 0, FALSE, 0),
   format |-> Null, bestAudio |-> Null, videoId |-> "", opOk |-> FALSE,
   videoBlob |-> FALSE, audioBlob |-> FALSE, reported |-> 0, clicks |-> <<>>,
   outcome |-> "none", endedAt |-> "none", endedProxy |-> "none"]

\* an attempt whose downloadVideo call has returned or thrown; nothing of
\* its closure is reachable any more.  outcome records how it ended and, for
\* a cancelled one, endedAt the transfer it was suspended in and endedProxy
\* what became of that transfer's proxy request.
Ended(outcome, rec) ==
  IF outcome = "cancelled"
    THEN [NoAttempt EXCEPT !.pc = "ended", !.outcome = outcome,
                           !.endedAt = rec.pc, !.endedProxy = rec.t.proxy]
    ELSE [NoAttempt EXCEPT !.pc = "ended", !.outcome = outcome,
                           !.clicks = rec.clicks]

\* state after the component has mounted (useState / useRef initial values)
SessionMounted ==
  /\ videoInfo = Null
  /\ progress = Stage("idle", 0)
  /\ error = Null
  /\ isLoading = FALSE
  /\ infoPc = "idle"
  /\ ffmpegRef = 0
  /\ engine = NoEngine
  /\ abortControllerRef = 0
  /\ attempts = [a \in 1..MaxAttempts |-> NoAttempt]
  /\ started = 0

(***************************************************************************)
(* downloadBlob on its own: every combination of its optional arguments    *)
(***************************************************************************)
BlobInit ==
  /\ blobSignal \in {0, 1}
  /\ \E key \in BOOLEAN, onProgress \in BOOLEAN, total \in Totals :
       blob = NewTransfer(key, blobSignal, onProgress, total)
  /\ aborted = {}
  /\ selectedFormat = Null
  /\ formats = <<>>
  /\ qualityOptions = <<>>
  /\ selectorPc = "mounted"
  /\ SessionMounted
  /\ ServerIdle

BlobOnprogress ==
  /\ blob.pc = "xhr"
  /\ \E l \in LoadedAfter(blob) : blob' = XhrOnprogress(blob, l)
  /\ UNCHANGED <<blobSignal, aborted, selectorVars, selectedFormat, sessionVars, serverVars>>

BlobOnload ==
  /\ blob.pc = "xhr"
  /\ \E status \in XhrStatuses : blob' = XhrOnload(blob, status)
  /\ UNCHANGED <<blobSignal, aborted, selectorVars, selectedFormat, sessionVars, serverVars>>

BlobOnerror ==
  /\ blob.pc = "xhr"
  /\ blob' = XhrOnerror(blob)
  /\ UNCHANGED <<blobSignal, aborted, selectorVars, selectedFormat, sessionVars, serverVars>>

BlobProxyResponse ==
  /\ blob.pc = "proxy"
  /\ \E status \in ProxyStatuses : blob' = ProxyResponse(blob, status)
  /\ UNCHANGED <<blobSignal, aborted, selectorVars, selectedFormat, sessionVars, serverVars>>

BlobProxyNetworkFailure ==
  /\ blob.pc \in {"proxy", "proxyBody"}
  /\ blob' = ProxyNetworkFailure(blob)
  /\ UNCHANGED <<blobSignal, aborted, selectorVars, selectedFormat, sessionVars, serverVars>>

BlobProxyBody ==
  /\ blob.pc = "proxyBody"
  /\ blob' = ProxyBody(blob)
  /\ UNCHANGED <<blobSignal, aborted, selectorVars, selectedFormat, sessionVars, serverVars>>

\* controller.abort() by the caller
BlobAbort ==
  /\ blobSignal # 0
  /\ blobSignal \notin aborted
  /\ aborted' = aborted \cup {blobSignal}
  /\ blob' = AbortListener(blob)
  /\ UNCHANGED <<blobSignal, selectorVars, selectedFormat, sessionVars, serverVars>>

BlobNext ==
  \/ BlobOnprogress
  \/ BlobOnload
  \/ BlobOnerror
  \/ BlobProxyResponse
  \/ BlobProxyNetworkFailure
  \/ BlobProxyBody
  \/ BlobAbort

(***************************************************************************)
(* Catalogs handed to the selector: every catalog of up to MaxFormats      *)
(* entries (itag = position, unique within the catalog), and the catalogs  *)
(* of the documented example: audio bitrates 128000 and 64000, video       *)
(* 1080p+audio, 1080p video-only, 720p+audio, in any order and with any    *)
(* video bitrates.                                                         *)
(***************************************************************************)
CatalogOf(kinds) ==
  [i \in 1..Len(kinds) |->
     VideoFormat(i, kinds[i][1], kinds[i][2], kinds[i][3], kinds[i][4])]

\* the catalogs of n entries
Catalogs(n) == {CatalogOf(k) : k \in [1..n -> FormatKinds]}

ExampleKinds(b1, b2, b3) ==
  <<
    <<FALSE, TRUE, Missing, 128000>>,
    <<FALSE, TRUE, Missing, 64000>>,
    <<TRUE, TRUE, 1080, b1>>,
    <<TRUE, FALSE, 1080, b2>>,
    <<TRUE, TRUE, 720, b3>>
  >>

Permutations5 == {p \in [1..5 -> 1..5] : \A i, j \in 1..5 : i # j => p[i] # p[j]}

ExampleCatalogs ==
  {CatalogOf([i \in 1..5 |-> ExampleKinds(b1, b2, b3)[p[i]]]) :
     p \in Permutations5, b1 \in Bitrates, b2 \in Bitrates, b3 \in Bitrates}

(***************************************************************************)
(* The selector on its own                                                 *)
(***************************************************************************)
SelectorInit ==
  /\ \/ \E n \in 0..MaxFormats : formats \in Catalogs(n)
     \/ formats \in ExampleCatalogs
  /\ qualityOptions = <<>>
  /\ selectorPc = "mounted"
  /\ selectedFormat = Null
  /\ blob = NewTransfer(FALSE, 0, FALSE, 0)
  /\ blobSignal = 0
  /\ aborted = {}
  /\ SessionMounted
  /\ ServerIdle

\* React.useMemo(() => {...}, [formats])
SelectorRender ==
  /\ selectorPc = "mounted"
  /\ qualityOptions' = buildOptions(formats)
  /\ selectorPc' = "rendered"
  /\ UNCHANGED <<formats, selectedFormat, blobVars, aborted, sessionVars, serverVars>>

\* <select onChange>: find the option by value, onSelectFormat(option.format)
SelectorChange ==
  /\ selectorPc = "rendered"
  /\ \E i \in 1..Len(qualityOptions) :
       /\ selectedFormat' = qualityOptions[i].format
       /\ selectedFormat' # selectedFormat
  /\ UNCHANGED <<formats, qualityOptions, selectorPc, blobVars, aborted, sessionVars, serverVars>>

SelectorNext == SelectorRender \/ SelectorChange

(***************************************************************************)
(* Downloader: one browsing session                                        *)
(***************************************************************************)
\* the files mergeWithFFmpeg keeps in the engine's virtual filesystem
VirtualFiles == {"video.mp4", "audio.mp4", "output.mp4"}

\* the catalogs /api/info answers with in the session: one with two
\* audio-only streams, a video-only and a muxed stream; one without audio
SessionCatalogs ==
  {
    [videoId |-> "dQw4w9WgXcQ",
     formats |-> CatalogOf(<<
       <<FALSE, TRUE, Missing, 64000>>,
       <<FALSE, TRUE, Missing, 128000>>,
       <<TRUE, FALSE, 1080, 128000>>,
       <<TRUE, TRUE, 720, 64000>>
     >>)],
    [videoId |-> "dQw4w9WgXcQ",
     formats |-> CatalogOf(<< <<TRUE, FALSE, 1080, 128000>> >>)]
  }

\* the page as loaded: nothing fetched, selected or transferred
ClientMounted ==
  /\ SessionMounted
  /\ selectedFormat = Null
  /\ aborted = {}
  /\ blob = NewTransfer(FALSE, 0, FALSE, 0)
  /\ blobSignal = 0
  /\ formats = <<>>
  /\ qualityOptions = <<>>
  /\ selectorPc = "mounted"

SessionInit ==
  /\ ClientMounted
  /\ ServerIdle

Running(a) == attempts[a].pc \notin {"unused", "ended"}

InTransfer(a) == attempts[a].pc \in {"video", "audio"}

\* `!videoId || !itag` negated
KeySupplied(videoId, itag) == videoId # "" /\ itag # 0

\* slip: every rejection is reported with its own message
CatchError_NoAbortCase(err, format) == Message(err.message, "")

\* the catch block of downloadVideo: the message shown for a thrown error
CatchError(err, format) ==
  IF err.name = "AbortError" THEN Message("Download cancelled", "")
  ELSE IF err.status = 403
    THEN IF format # Null /\ ~format.hasAudio
           THEN Message(err.message, "select a combined format")
           ELSE Message(err.message, "try a different format")
  ELSE Message(err.message, "")

\* outcome recorded for an attempt that ended in the catch block
CaughtOutcome(err) == IF err.name = "AbortError" THEN "cancelled" ELSE "failed"

\* catch (err) { setError(...); setProgress({ stage: 'idle', progress: 0 }) }
Catch(a, err, rec) ==
  /\ error' = CatchError(err, rec.format)
  /\ progress' = Stage("idle", 0)
  /\ attempts' = [attempts EXCEPT ![a] = Ended(CaughtOutcome(err), rec)]

(***************************************************************************)
(* fetchVideoInfo                                                          *)
(***************************************************************************)
\* Fetch Info button / Enter key: enabled when !isLoading and stage idle.
\* The url field is empty only before the first fetch; once a url has been
\* typed it stays in the field.
FetchVideoInfo ==
  /\ ~isLoading
  /\ progress.stage = "idle"
  /\ \/ /\ videoInfo = Null
        /\ error = Null
        /\ started = 0
        /\ error' = Message("Please enter a YouTube URL", "")
        /\ UNCHANGED <<videoInfo, selectedFormat, progress, isLoading, infoPc>>
     \/ /\ isLoading' = TRUE
        /\ error' = Null
        /\ videoInfo' = Null
        /\ selectedFormat' = Null
        /\ progress' = Stage("fetching", 0)
        /\ infoPc' = "pending"
  /\ UNCHANGED <<ffmpegRef, engine, abortControllerRef, attempts, started,
                 aborted, blobVars, selectorVars, serverVars>>

\* axios.get resolves or rejects
FetchInfoResponse ==
  /\ infoPc = "pending"
  /\ \/ \E data \in SessionCatalogs : videoInfo' = data /\ error' = error
     \/ /\ error' = Message("Failed to fetch video information", "")
        /\ videoInfo' = videoInfo
  /\ progress' = Stage("idle", 0)
  /\ isLoading' = FALSE
  /\ infoPc' = "idle"
  /\ UNCHANGED <<selectedFormat, ffmpegRef, engine, abortControllerRef,
                 attempts, started, aborted, blobVars, selectorVars, serverVars>>

\* the quality <select>, rendered whenever videoInfo is set.  selectedFormat
\* is read by downloadVideo only, which the Download button allows in stage
\* idle only; a selection made while the stage is not idle is taken here
\* once the stage is idle again.
SelectFormat ==
  /\ videoInfo # Null
  /\ progress.stage = "idle"
  /\ \E i \in 1..Len(buildOptions(videoInfo.formats)) :
       /\ selectedFormat' = buildOptions(videoInfo.formats)[i].format
       /\ selectedFormat' # selectedFormat
  /\ UNCHANGED <<sessionVars, aborted, blobVars, selectorVars, serverVars>>


(***************************************************************************)
(* downloadVideo                                                           *)
(***************************************************************************)
\* videoInfo.formats.filter((f) => f.hasAudio && !f.hasVideo) and its sort
MergeAudioFormats(fs) ==
  StableSort(SelectSeq(fs, LAMBDA f : f.hasAudio /\ ~f.hasVideo), "bestAudio")

\* a.href = format.url
FormatHref(format) == [kind |-> "format", itag |-> format.itag]

\* a.href = URL.createObjectURL(blob)
ObjectHref == [kind |-> "object", itag |-> 0]

\* slip: stage complete without the anchor click
DirectSave_NoClick(a, rec) ==
  /\ attempts' = [attempts EXCEPT ![a] = Ended("complete", rec)]
  /\ progress' = Stage("complete", 100)
  /\ error' = Null

\* a.href = format.url; a.click(); then stage complete
DirectSave(a, rec) ==
  /\ attempts' = [attempts EXCEPT ![a] =
       Ended("complete", [rec EXCEPT !.clicks = Append(@, FormatHref(rec.format))])]
  /\ progress' = Stage("complete", 100)
  /\ error' = Null

\* Download button: rendered with videoInfo, enabled when a format is
\* selected and the stage is idle
DownloadVideo ==
  /\ videoInfo # Null
  /\ selectedFormat # Null
  /\ progress.stage = "idle"
  /\ started < MaxAttempts
  /\ LET a == started + 1
         format == selectedFormat
         rec == [NoAttempt EXCEPT
                   !.format = format,
                   !.videoId = videoInfo.videoId]
         audios == MergeAudioFormats(videoInfo.formats)
     IN
     /\ started' = a
     /\ abortControllerRef' = a
     /\ IF format.hasVideo /\ format.hasAudio
          THEN DirectSave(a, rec)
        ELSE IF format.hasVideo /\ ~format.hasAudio
          THEN IF Len(audios) = 0
                 THEN Catch(a, Rejected("Error", "No audio stream available for merging", 0), rec)
                 ELSE \E total \in Totals :
                        /\ attempts' = [attempts EXCEPT ![a] =
                             [rec EXCEPT
                                !.pc = "video",
                                !.bestAudio = audios[1],
                                !.t = NewTransfer(KeySupplied(videoInfo.videoId, format.itag),
                                                  a, TRUE, total)]]
                        /\ progress' = Stage("downloading", 0)
                        /\ error' = Null
        ELSE IF format.hasAudio /\ ~format.hasVideo
          THEN DirectSave(a, rec)
        ELSE /\ attempts' = [attempts EXCEPT ![a] = Ended("nothing", rec)]
             /\ progress' = Stage("downloading", 0)
             /\ error' = Null
  /\ UNCHANGED <<videoInfo, selectedFormat, isLoading, infoPc, ffmpegRef, engine,
                 aborted, blobVars, selectorVars, serverVars>>

\* an attempt inside mergeWithFFmpeg: the transfers are over, of the closure
\* only selectedFormat is still read (by the catch block)
InMerge(rec, pc) ==
  [NoAttempt EXCEPT !.pc = pc, !.format = rec.format, !.opOk = rec.opOk,
                    !.videoBlob = rec.videoBlob, !.audioBlob = rec.audioBlob]

\* initFFmpeg as entered from mergeWithFFmpeg: reuse ffmpegRef.current, or
\* create the instance, publish it in ffmpegRef and start fetching its assets
MergeStart(a, rec) ==
  /\ error' = error
  /\ IF ffmpegRef # 0
       THEN /\ progress' = Stage("merging", 10)
            /\ attempts' = [attempts EXCEPT ![a] = InMerge(rec, "fetchFileVideo")]
            /\ UNCHANGED <<ffmpegRef, engine>>
       ELSE /\ progress' = Stage("merging", 0)
            /\ ffmpegRef' = 1
            /\ engine' = [engine EXCEPT !.state = "created"]
            /\ attempts' = [attempts EXCEPT ![a] = InMerge(rec, "toBlobURL")]

\* what follows a handler of the transfer of attempt a that left it as t2
AfterTransfer(a, t2) ==
  LET rec == [attempts[a] EXCEPT !.t = t2] IN
  IF t2.result.kind = "pending"
    THEN /\ attempts' = [attempts EXCEPT ![a] = rec]
         /\ UNCHANGED <<error, progress, ffmpegRef, engine>>
  ELSE IF t2.result.kind = "rejected"
    THEN /\ Catch(a, t2.result, rec)
         /\ UNCHANGED <<ffmpegRef, engine>>
  ELSE IF rec.pc = "video"
    THEN /\ \E total \in Totals :
              attempts' = [attempts EXCEPT ![a] =
                [rec EXCEPT
                   !.pc = "audio",
                   !.videoBlob = TRUE,
                   !.reported = 50,
                   !.t = NewTransfer(KeySupplied(rec.videoId, rec.bestAudio.itag),
                                     abortControllerRef, TRUE, total)]]
         /\ progress' = Stage("downloading", 50)
         /\ UNCHANGED <<error, ffmpegRef, engine>>
  ELSE MergeStart(a, [rec EXCEPT !.audioBlob = TRUE])

transferFrame ==
  UNCHANGED <<videoInfo, selectedFormat, isLoading, infoPc, abortControllerRef,
              started, aborted, blobVars, selectorVars, serverVars>>

\* slip: the audio callback scales like the video callback
ScaledProgress_NoOffset(pc, value) == value \div 2

\* the onProgress callbacks: progress * 0.5 for the video transfer,
\* 50 + progress * 0.5 for the audio transfer
ScaledProgress(pc, value) ==
  IF pc = "video" THEN value \div 2 ELSE 50 + value \div 2

\* xhr.onprogress of the attempt's transfer, scaled into 0-50 or 50-100.
\* An event that does not reach the callback changes nothing the session
\* reads and is left out.
TransferProgress ==
  /\ \E a \in 1..MaxAttempts :
       /\ InTransfer(a)
       /\ attempts[a].t.pc = "xhr"
       /\ attempts[a].t.onProgress /\ attempts[a].t.total > 0
       /\ \E l \in LoadedAfter(attempts[a].t) :
            LET t2 == XhrOnprogress(attempts[a].t, l)
                value == ScaledProgress(attempts[a].pc, t2.lastValue)
            IN
            /\ attempts' = [attempts EXCEPT ![a].t = t2, ![a].reported = value]
            /\ progress' = Stage("downloading", value)
  /\ UNCHANGED <<error, ffmpegRef, engine>>
  /\ transferFrame

TransferOnload ==
  /\ \E a \in 1..MaxAttempts :
       /\ InTransfer(a)
       /\ attempts[a].t.pc = "xhr"
       /\ \E status \in XhrStatuses : AfterTransfer(a, XhrOnload(attempts[a].t, status))
  /\ transferFrame

TransferOnerror ==
  /\ \E a \in 1..MaxAttempts :
       /\ InTransfer(a)
       /\ attempts[a].t.pc = "xhr"
       /\ AfterTransfer(a, XhrOnerror(attempts[a].t))
  /\ transferFrame

TransferProxyResponse ==
  /\ \E a \in 1..MaxAttempts :
       /\ InTransfer(a)
       /\ attempts[a].t.pc = "proxy"
       /\ \E status \in ProxyStatuses :
            AfterTransfer(a, ProxyResponse(attempts[a].t, status))
  /\ transferFrame

TransferProxyNetworkFailure ==
  /\ \E a \in 1..MaxAttempts :
       /\ InTransfer(a)
       /\ attempts[a].t.pc \in {"proxy", "proxyBody"}
       /\ AfterTransfer(a, ProxyNetworkFailure(attempts[a].t))
  /\ transferFrame

TransferProxyBody ==
  /\ \E a \in 1..MaxAttempts :
       /\ InTransfer(a)
       /\ attempts[a].t.pc = "proxyBody"
       /\ AfterTransfer(a, ProxyBody(attempts[a].t))
  /\ transferFrame

(***************************************************************************)
(* cancelDownload                                                          *)
(***************************************************************************)
\* Cancel button: rendered with videoInfo while the stage is neither idle
\* nor complete.  abort() runs the listeners of every transfer holding the
\* signal; the rejected downloadVideo calls run their catch block.
CancelDownload ==
  /\ videoInfo # Null
  /\ progress.stage \notin {"idle", "complete"}
  /\ LET c == abortControllerRef
         hit == {a \in 1..MaxAttempts :
                   c # 0 /\ InTransfer(a) /\ attempts[a].t.signal = c}
         after(a) == AbortListener(attempts[a].t)
         caught == {a \in hit : after(a).result.kind = "rejected"}
     IN
     /\ aborted' = IF c # 0 THEN aborted \cup {c} ELSE aborted
     /\ abortControllerRef' = 0
     /\ attempts' =
          [a \in 1..MaxAttempts |->
             IF a \in caught
               THEN Ended(CaughtOutcome(after(a).result),
                          [attempts[a] EXCEPT !.t = after(a)])
             ELSE IF a \in hit THEN [attempts[a] EXCEPT !.t = after(a)]
             ELSE attempts[a]]
     /\ error' =
          IF caught # {}
            THEN LET a == CHOOSE x \in caught : \A y \in caught : y <= x
                 IN CatchError(after(a).result, attempts[a].format)
            ELSE error
     /\ progress' = Stage("idle", 0)
  /\ UNCHANGED <<videoInfo, selectedFormat, isLoading, infoPc, ffmpegRef, engine,
                 started, blobVars, selectorVars, serverVars>>

(***************************************************************************)
(* initFFmpeg and mergeWithFFmpeg, one awaited call at a time.  An engine  *)
(* call succeeds only on an instance that was loaded when the call was     *)
(* issued (opOk), and may fail on its own.                                 *)
(***************************************************************************)
engineFrame ==
  UNCHANGED <<videoInfo, selectedFormat, isLoading, infoPc, ffmpegRef,
              abortControllerRef, started, aborted, blobVars, selectorVars, serverVars>>

\* the engine's own error, passed on as thrown
EngineError(rec) == Rejected("Error", "engine error", 0)

\* the two toBlobURL fetches, then ffmpeg.load() is called
ToBlobURL ==
  /\ \E a \in 1..MaxAttempts :
       /\ attempts[a].pc = "toBlobURL"
       /\ \/ /\ engine' = [engine EXCEPT !.state = "loading",
                                         !.loadCalls = engine.loadCalls + 1]
             /\ attempts' = [attempts EXCEPT ![a].pc = "load"]
             /\ UNCHANGED <<error, progress>>
          \/ /\ Catch(a, Rejected("TypeError", "Failed to fetch", 0), attempts[a])
             /\ UNCHANGED engine
  /\ engineFrame

\* ffmpeg.load() settles; on success initFFmpeg returns and mergeWithFFmpeg
\* reports 10%
Load ==
  /\ \E a \in 1..MaxAttempts :
       /\ attempts[a].pc = "load"
       /\ \/ /\ engine' = [engine EXCEPT !.state = "loaded"]
             /\ attempts' = [attempts EXCEPT ![a].pc = "fetchFileVideo"]
             /\ progress' = Stage("merging", 10)
             /\ UNCHANGED error
          \/ /\ engine' = [engine EXCEPT !.state = "failed"]
             /\ Catch(a, EngineError(attempts[a]), attempts[a])
  /\ engineFrame

\* the next engine call (writeFile, exec) is issued on the instance as it is
IssueCall(rec, pc) ==
  [rec EXCEPT !.pc = pc, !.opOk = (engine.state = "loaded")]

\* fetchFile(videoBlob) resolves and writeFile('video.mp4') is issued
FetchFile ==
  /\ \E a \in 1..MaxAttempts :
       /\ attempts[a].pc = "fetchFileVideo"
       /\ attempts' = [attempts EXCEPT ![a] = IssueCall(attempts[a], "writeVideo")]
  /\ UNCHANGED <<error, progress, engine>>
  /\ engineFrame

\* ffmpeg.writeFile settles; after video.mp4 the audio blob is read and
\* writeFile('audio.mp4') is issued, after audio.mp4 exec is issued
WriteFile ==
  /\ \E a \in 1..MaxAttempts :
       LET rec == attempts[a]
           name == IF rec.pc = "writeVideo" THEN "video.mp4" ELSE "audio.mp4"
       IN
       /\ rec.pc \in {"writeVideo", "writeAudio"}
       /\ \/ /\ rec.opOk
             /\ engine' = [engine EXCEPT !.files = engine.files \cup {name}]
             /\ attempts' = [attempts EXCEPT ![a] =
                  IssueCall(rec, IF rec.pc = "writeVideo" THEN "writeAudio" ELSE "exec")]
             /\ progress' = Stage("merging", IF rec.pc = "writeVideo" THEN 30 ELSE 50)
             /\ UNCHANGED error
          \/ /\ Catch(a, EngineError(rec), rec)
             /\ UNCHANGED engine
  /\ engineFrame

\* ffmpeg.exec settles: output.mp4 is produced when both inputs are there;
\* a non-zero return code resolves as well and is not looked at
Exec ==
  /\ \E a \in 1..MaxAttempts :
       LET rec == attempts[a]
           made == {"video.mp4", "audio.mp4"} \subseteq engine.files
       IN
       /\ rec.pc = "exec"
       /\ \/ /\ rec.opOk
             /\ \E produced \in {made, FALSE} :
                  /\ engine' = [engine EXCEPT !.files =
                       IF produced THEN engine.files \cup {"output.mp4"}
                                   ELSE engine.files]
                  /\ attempts' = [attempts EXCEPT ![a].pc = "readFile"]
             /\ progress' = Stage("merging", 90)
             /\ UNCHANGED error
          \/ /\ Catch(a, EngineError(rec), rec)
             /\ UNCHANGED engine
  /\ engineFrame

\* ffmpeg.readFile settles; on success deleteFile('video.mp4') is issued
ReadFile ==
  /\ \E a \in 1..MaxAttempts :
       LET rec == attempts[a] IN
       /\ rec.pc = "readFile"
       /\ \/ /\ rec.opOk
             /\ "output.mp4" \in engine.files
             /\ attempts' = [attempts EXCEPT ![a].pc = "deleteVideo"]
             /\ UNCHANGED <<error, progress>>
          \/ Catch(a, EngineError(rec), rec)
  /\ UNCHANGED engine
  /\ engineFrame

\* the file a pending deleteFile call names
DeleteTarget(pc) ==
  IF pc = "deleteVideo" THEN "video.mp4"
  ELSE IF pc = "deleteAudio" THEN "audio.mp4"
  ELSE "output.mp4"

\* ffmpeg.deleteFile settles; after the third one the blob is saved through
\* an anchor click and the stage becomes complete
DeleteFile ==
  /\ \E a \in 1..MaxAttempts :
       LET rec == attempts[a]
           name == DeleteTarget(rec.pc)
       IN
       /\ rec.pc \in {"deleteVideo", "deleteAudio", "deleteOutput"}
       /\ \/ /\ rec.opOk
             /\ name \in engine.files
             /\ engine' = [engine EXCEPT !.files = engine.files \ {name}]
             /\ IF rec.pc = "deleteVideo"
                  THEN /\ attempts' = [attempts EXCEPT ![a].pc = "deleteAudio"]
                       /\ UNCHANGED <<error, progress>>
                ELSE IF rec.pc = "deleteAudio"
                  THEN /\ attempts' = [attempts EXCEPT ![a].pc = "deleteOutput"]
                       /\ UNCHANGED <<error, progress>>
                ELSE /\ attempts' = [attempts EXCEPT ![a] =
                          Ended("complete", [rec EXCEPT !.clicks = Append(@, ObjectHref)])]
                     /\ progress' = Stage("complete", 100)
                     /\ UNCHANGED error
          \/ /\ Catch(a, EngineError(rec), rec)
             /\ UNCHANGED engine
  /\ engineFrame

Next ==
  \/ FetchVideoInfo
  \/ FetchInfoResponse
  \/ SelectFormat
  \/ DownloadVideo
  \/ CancelDownload
  \/ TransferProgress
  \/ TransferOnload
  \/ TransferOnerror
  \/ TransferProxyResponse
  \/ TransferProxyNetworkFailure
  \/ TransferProxyBody
  \/ ToBlobURL
  \/ Load
  \/ FetchFile
  \/ WriteFile
  \/ Exec
  \/ ReadFile
  \/ DeleteFile

vars == <<sessionVars, blobVars, selectorVars, aborted, selectedFormat, serverVars>>

SpecOptions == SelectorInit /\ [][SelectorNext]_vars

SpecBlob == BlobInit /\ [][BlobNext]_vars

Spec == SessionInit /\ [][Next]_vars

(***************************************************************************)
(* GET /api/info: one request                                              *)
(***************************************************************************)
\* the symbols input strings are built from: an id character, a space, a
\* terminator and the short-link text
Symbols == {"a", " ", "&", ShortLink}

\* what stands before and after the run of id characters
Affixes == UNION {[1..n -> Symbols] : n \in 0..MaxAffix}

Run(n) == [i \in 1..n |-> "a"]

RunLengths == {0, 5, IdLength - 1, IdLength, IdLength + 1}

ExampleShort == <<"s", "h", "o", "r", "t">>

ExampleNotAUrl == <<"n", "o", "t", " ", "a", " ", "u", "r", "l">>

\* the values of the url parameter
Inputs ==
  {pre \o Run(n) \o suf : pre \in Affixes, suf \in Affixes, n \in RunLengths}
  \cup {ExampleShort, ExampleNotAUrl}

\* the info.formats lists ytdl.getInfo resolves with
CandidateLists ==
  UNION {{CandidatesOf(k) : k \in [1..n -> CandidateKinds]} : n \in 0..MaxCandidates}

InfoInit ==
  /\ ClientMounted
  /\ relay = NoRelayRequest
  /\ \/ info = InfoRequest(FALSE, <<>>)
     \/ \E url \in Inputs : info = InfoRequest(TRUE, url)

\* GET up to `await ytdl.getInfo(videoId, ...)`
InfoGET ==
  /\ info.pc = "received"
  /\ LET code == InfoInputError(info.hasUrl, info.url) IN
     IF code # ""
       THEN info' = [info EXCEPT !.pc = "responded",
                                 !.answer = Answer(400, code, <<>>)]
       ELSE info' = [info EXCEPT !.pc = "getInfo",
                                 !.videoId = extractVideoId(info.url).id,
                                 !.getInfoCalls = @ + 1]
  /\ UNCHANGED <<relay, sessionVars, blobVars, selectorVars, aborted, selectedFormat>>

\* ytdl.getInfo resolves: the formats are parsed and filtered, success
InfoResolved ==
  /\ info.pc = "getInfo"
  /\ \E candidates \in CandidateLists :
       info' = [info EXCEPT !.pc = "responded",
                            !.candidates = candidates,
                            !.answer = Answer(200, "", ParsedFormats(candidates))]
  /\ UNCHANGED <<relay, sessionVars, blobVars, selectorVars, aborted, selectedFormat>>

\* ytdl.getInfo rejects: the inner catch answers
InfoRejected ==
  /\ info.pc = "getInfo"
  /\ \E failure \in ServiceFailures :
       info' = [info EXCEPT !.pc = "responded",
                            !.rejected = TRUE,
                            !.failure = failure,
                            !.answer = InfoFailureAnswer(failure)]
  /\ UNCHANGED <<relay, sessionVars, blobVars, selectorVars, aborted, selectedFormat>>

\* ytdl.getInfo resolves with an object the handler cannot read (no
\* videoDetails): the outer catch answers
InfoUnexpected ==
  /\ info.pc = "getInfo"
  /\ info' = [info EXCEPT !.pc = "responded",
                          !.answer = Answer(500, "INTERNAL_ERROR", <<>>)]
  /\ UNCHANGED <<relay, sessionVars, blobVars, selectorVars, aborted, selectedFormat>>

InfoNext ==
  \/ InfoGET
  \/ InfoResolved
  \/ InfoRejected
  \/ InfoUnexpected

SpecInfo == InfoInit /\ [][InfoNext]_vars

(***************************************************************************)
(* GET /api/download: one request                                          *)
(***************************************************************************)
RelayInit ==
  /\ ClientMounted
  /\ info = NoInfoRequest
  /\ \E hasVideoId \in BOOLEAN, hasItag \in BOOLEAN,
        itag \in 1..(MaxCandidates + 1), range \in BOOLEAN :
       relay = RelayRequest(hasVideoId, hasItag, itag, range)

RelayRespond(status, code) ==
  relay' = [relay EXCEPT !.pc = "responded",
                         !.answer = RelayAnswer(status, code, "none", FALSE)]

\* GET up to `await ytdl.getInfo(videoId, ...)`
RelayGET ==
  /\ relay.pc = "received"
  /\ IF ~relay.hasVideoId \/ ~relay.hasItag
       THEN RelayRespond(400, "MISSING_PARAMS")
       ELSE relay' = [relay EXCEPT !.pc = "getInfo"]
  /\ UNCHANGED <<info, sessionVars, blobVars, selectorVars, aborted, selectedFormat>>

\* ytdl.getInfo rejects
RelayInfoRejected ==
  /\ relay.pc = "getInfo"
  /\ \E failure \in ServiceFailures :
       IF Includes(failure, "n transform") \/ Includes(failure, "signature")
            \/ Includes(failure, "decipher")
         THEN RelayRespond(500, "SIGNATURE_ERROR")
         ELSE RelayRespond(500, "FETCH_ERROR")
  /\ UNCHANGED <<info, sessionVars, blobVars, selectorVars, aborted, selectedFormat>>

\* the catch around downloadFromInfo
RelayStreamError(format, streamError) ==
  IF IsAccessDenied(streamError)
    THEN relay' = [relay EXCEPT !.pc = "responded", !.format = format,
                                !.firstPath = "denied",
                                !.answer = RelayAnswer(403, "ACCESS_DENIED", "none", FALSE)]
  ELSE IF format.url \notin {"", "none"}
    THEN relay' = [relay EXCEPT !.pc = "fetch", !.format = format,
                                !.firstPath = "failed",
                                !.upstreamRange = relay.range,
                                !.directFetches = @ + 1]
  ELSE relay' = [relay EXCEPT !.pc = "responded", !.format = format,
                              !.firstPath = "failed",
                              !.answer = RelayAnswer(500, "DOWNLOAD_FAILED", "none", FALSE)]

\* ytdl.getInfo resolves: the format is looked up and checked, then
\* downloadFromInfo returns its stream (answered at once) or throws
RelayInfoResolved ==
  /\ relay.pc = "getInfo"
  /\ \E candidates \in CandidateLists :
       LET found == {i \in 1..Len(candidates) : candidates[i].itag = relay.itag} IN
       IF found = {}
         THEN RelayRespond(404, "FORMAT_NOT_FOUND")
       ELSE LET format == candidates[CHOOSE i \in found : \A j \in found : i <= j] IN
         IF format.url \in {"", "none"}
           THEN relay' = [relay EXCEPT !.pc = "responded", !.format = format,
                            !.answer = RelayAnswer(404, "NO_URL", "none", FALSE)]
         ELSE IF isWebP(format)
           THEN relay' = [relay EXCEPT !.pc = "responded", !.format = format,
                            !.answer = RelayAnswer(400, "WEBP_NOT_SUPPORTED", "none", FALSE)]
         ELSE \/ relay' = [relay EXCEPT
                             !.pc = "responded", !.format = format,
                             !.firstPath = "streamed",
                             !.answer = RelayAnswer(IF relay.range THEN 206 ELSE 200, "",
                                                    "downloadFromInfo", relay.range)]
              \/ \E streamError \in StreamErrors : RelayStreamError(format, streamError)
  /\ UNCHANGED <<info, sessionVars, blobVars, selectorVars, aborted, selectedFormat>>

\* fetch(format.url, { headers }) resolves; upstream answers 206 only to a
\* request carrying Range
RelayFetchResponse ==
  /\ relay.pc = "fetch"
  /\ \E status \in UpstreamStatuses, contentRange \in BOOLEAN :
       /\ (status = 206) => relay.upstreamRange
       /\ contentRange => (status = 206)
       /\ IF status < 200 \/ status > 299
            THEN RelayRespond(status, "FETCH_ERROR")
            ELSE relay' = [relay EXCEPT
                             !.pc = "responded",
                             !.answer = RelayAnswer(IF status = 206 THEN 206 ELSE 200, "",
                                                    "fetch", contentRange)]
  /\ UNCHANGED <<info, sessionVars, blobVars, selectorVars, aborted, selectedFormat>>

\* fetch(format.url) rejects: the outer catch answers
RelayFetchRejected ==
  /\ relay.pc = "fetch"
  /\ RelayRespond(500, "INTERNAL_ERROR")
  /\ UNCHANGED <<info, sessionVars, blobVars, selectorVars, aborted, selectedFormat>>

RelayNext ==
  \/ RelayGET
  \/ RelayInfoRejected
  \/ RelayInfoResolved
  \/ RelayFetchResponse
  \/ RelayFetchRejected

SpecProxy == RelayInit /\ [][RelayNext]_vars

(***************************************************************************)
(* Properties of the session (Spec)                                        *)
(***************************************************************************)
Attempts == 1..MaxAttempts

\* the calls an attempt is suspended in inside initFFmpeg / mergeWithFFmpeg
MergeCalls ==
  {"toBlobURL", "load", "fetchFileVideo", "writeVideo", "writeAudio", "exec",
   "readFile", "deleteVideo", "deleteAudio", "deleteOutput"}

Merging(a) == attempts[a].pc \in MergeCalls

Cancelled == Message("Download cancelled", "")

\* C1: whatever engine step fails, the three virtual files are deleted, so
\* once no attempt is inside the merge the engine's filesystem is empty.
C1_CleanupAfterMerge ==
  (\A a \in Attempts : ~Merging(a)) => engine.files = {}

\* C2: cancelling while the video transfer (primary or proxy) is in flight
\* ends the flow with stage idle and 'Download cancelled'; the audio
\* transfer of that attempt is never started.
C2_CancelDuringVideo ==
  /\ [][\A a \in Attempts :
          (a \notin aborted /\ a \in aborted' /\ attempts[a].pc = "video") =>
            /\ attempts'[a].pc = "ended"
            /\ attempts'[a].outcome = "cancelled"
            /\ progress'.stage = "idle"
            /\ error' = Cancelled]_vars
  /\ [][\A a \in Attempts :
          (a \in aborted /\ attempts[a].pc # "audio") => attempts'[a].pc # "audio"]_vars

\* an attempt cancelled while its video transfer was on the proxy fallback
C2_Witness ==
  \E a \in Attempts :
    /\ a \in aborted
    /\ attempts[a].pc = "ended"
    /\ attempts[a].outcome = "cancelled"
    /\ attempts[a].endedAt = "video"
    /\ attempts[a].endedProxy = "aborted"
    /\ progress.stage = "idle"
    /\ error = Cancelled

\* C3: once cancelDownload has aborted an attempt's controller, the attempt
\* never triggers the save and never sets the stage to merging or complete.
C3_CancelObserved ==
  [][\A a \in Attempts :
       (a \in aborted /\ Running(a) /\ attempts'[a] # attempts[a]) =>
         /\ attempts'[a].outcome # "complete"
         /\ progress'.stage \notin {"merging", "complete"}]_vars

\* C4: at most one flow (download attempt or info fetch) is pending.
C4_OneActiveFlow ==
  Cardinality({a \in Attempts : Running(a)})
    + (IF infoPc = "pending" THEN 1 ELSE 0) <= 1

\* C6: once an attempt's controller is aborted no transfer of the attempt
\* is in flight (no proxy request starts or stays pending, none resolves),
\* and no transfer in flight holds an aborted signal.
C6_NoTransferAfterCancel ==
  /\ \A a \in Attempts : a \in aborted => ~InTransfer(a)
  /\ \A a \in Attempts :
       (InTransfer(a) /\ attempts[a].t.signal # 0) =>
         attempts[a].t.signal \notin aborted

\* an attempt cancelled while the proxy request of its audio transfer was
\* pending
C6_Witness ==
  \E a \in Attempts :
    /\ a \in aborted
    /\ attempts[a].pc = "ended"
    /\ attempts[a].outcome = "cancelled"
    /\ attempts[a].endedAt = "audio"
    /\ attempts[a].endedProxy = "aborted"

\* C7: ffmpeg.load() is called at most once, and every write, combine and
\* read is issued to an instance that had finished loading.
C7_EngineLoadedOnce ==
  /\ engine.loadCalls <= 1
  /\ \A a \in Attempts :
       attempts[a].pc \in {"writeVideo", "writeAudio", "exec", "readFile"} =>
         attempts[a].opOk

(***************************************************************************)
(* Properties of one transfer (SpecBlob)                                   *)
(***************************************************************************)
IndeterminateFailure(t) == t.primary \in {"status0", "network_error"}

\* what C5 says of a transfer record
FallbackRule(t) ==
  /\ t.proxyRequests <= 1
  /\ (t.proxyRequests = 1) <=> (IndeterminateFailure(t) /\ t.key)
  /\ (t.proxy = "payload") => (t.result = Resolved)
  /\ (t.proxy = "failed") =>
       /\ t.result.kind = "rejected"
       /\ t.result.message \in {"Server proxy failed", "Failed to fetch"}
  /\ (IndeterminateFailure(t) /\ ~t.key) =>
       /\ t.pc = "settled"
       /\ t.result.kind = "rejected"
       /\ t.result.name = "Error"
       /\ t.proxy = "none"

\* C5: a proxy request is issued iff the primary transfer failed with a
\* network error or status 0 and a fallback key was supplied; at most once;
\* its outcome is the transfer's outcome; without a key the primary failure
\* is terminal with no proxy request.
C5_FallbackOnce == FallbackRule(blob)

\* a keyed transfer whose primary failed and whose proxy request was refused
C5_Witness ==
  /\ blob.key
  /\ blob.primary = "network_error"
  /\ blob.proxyRequests = 1
  /\ blob.proxy = "failed"
  /\ blob.result.status = 403

(***************************************************************************)
(* Properties of the quality selector (SpecOptions)                        *)
(***************************************************************************)
IsExampleCatalog == formats \in ExampleCatalogs

Rendered == selectorPc = "rendered"

AudioOnly(f) == f.hasAudio /\ ~f.hasVideo

\* positions of the audio / video options in the rendered list
AudioIdx == {i \in 1..Len(qualityOptions) : qualityOptions[i].group = "audio"}

VideoIdx == {i \in 1..Len(qualityOptions) : qualityOptions[i].group = "video"}

\* positions of the catalog's audio-only / video descriptors
AudioPos == {j \in 1..Len(formats) : AudioOnly(formats[j])}

VideoPos == {j \in 1..Len(formats) : formats[j].hasVideo}

PairOf(f) == <<OrZero(f.height), f.hasAudio>>

\* C8 (as stated): one video entry per resolution tier, muxed preferred; the
\* example catalog yields exactly 3 options [audio-128000, 1080p with audio,
\* 720p].
C8_ExampleThreeOptions ==
  (Rendered /\ IsExampleCatalog) =>
    /\ Len(qualityOptions) = 3
    /\ qualityOptions[1].group = "audio"
    /\ qualityOptions[1].format.bitrate = 128000
    /\ qualityOptions[2].group = "video"
    /\ qualityOptions[2].format.height = 1080
    /\ qualityOptions[2].format.hasAudio
    /\ qualityOptions[3].group = "video"
    /\ qualityOptions[3].format.height = 720

\* C8 (amended): one video entry per distinct (tier, hasAudio) pair, so a
\* tier with a muxed and a video-only descriptor is offered twice; the
\* example catalog yields exactly 4 options: audio-128000, the two 1080p
\* descriptors in descending bitrate (catalog order on equal bitrate), 720p.
C8_ExampleFourOptions ==
  (Rendered /\ IsExampleCatalog) =>
    /\ Len(qualityOptions) = 4
    /\ qualityOptions[1].group = "audio"
    /\ AudioOnly(qualityOptions[1].format)
    /\ qualityOptions[1].format.bitrate = 128000
    /\ \A i \in 2..4 : qualityOptions[i].group = "video"
    /\ qualityOptions[2].format.height = 1080
    /\ qualityOptions[3].format.height = 1080
    /\ qualityOptions[2].format.hasAudio # qualityOptions[3].format.hasAudio
    /\ \/ OrZero(qualityOptions[2].format.bitrate) > OrZero(qualityOptions[3].format.bitrate)
       \/ /\ OrZero(qualityOptions[2].format.bitrate) = OrZero(qualityOptions[3].format.bitrate)
          /\ qualityOptions[2].format.itag < qualityOptions[3].format.itag
    /\ qualityOptions[4].format.height = 720
    /\ qualityOptions[4].format.hasAudio
    /\ \A i \in 2..4 : qualityOptions[i].requiresMerge = ~qualityOptions[i].format.hasAudio

\* the example catalog rendered with the video-only 1080p entry sorted first
C8_Witness ==
  /\ Rendered
  /\ IsExampleCatalog
  /\ Len(qualityOptions) = 4
  /\ ~qualityOptions[2].format.hasAudio

\* C9: at most one audio option; it exists exactly when the catalog has an
\* audio-only descriptor, carries an audio-only descriptor of maximal bitrate
\* (missing = 0), has requiresMerge false and precedes every video option.
C9_SingleBestAudio ==
  Rendered =>
    /\ Cardinality(AudioIdx) <= 1
    /\ (AudioIdx # {}) <=> (AudioPos # {})
    /\ \A i \in AudioIdx :
         /\ \E j \in AudioPos : qualityOptions[i].format = formats[j]
         /\ \A j \in AudioPos :
              OrZero(formats[j].bitrate) <= OrZero(qualityOptions[i].format.bitrate)
         /\ qualityOptions[i].requiresMerge = FALSE
         /\ \A k \in VideoIdx : i < k

\* a catalog with two audio-only descriptors of different bitrate, the lower
\* one first, and a video descriptor, rendered
C9_Witness ==
  /\ Rendered
  /\ \E j, k \in AudioPos :
       j < k /\ OrZero(formats[j].bitrate) < OrZero(formats[k].bitrate)
  /\ VideoIdx # {}
  /\ AudioIdx # {}

\* C10: video options are in descending height (missing = 0), ties in
\* descending bitrate; no two share (height-or-0, hasAudio); every such pair
\* among the catalog's video descriptors has exactly one option, the first
\* descriptor with that pair in the sort order; requiresMerge = ~hasAudio.
C10_VideoOptions ==
  Rendered =>
    /\ \A i, k \in VideoIdx :
         i < k =>
           \/ OrZero(qualityOptions[i].format.height) > OrZero(qualityOptions[k].format.height)
           \/ /\ OrZero(qualityOptions[i].format.height) = OrZero(qualityOptions[k].format.height)
              /\ OrZero(qualityOptions[i].format.bitrate) >= OrZero(qualityOptions[k].format.bitrate)
    /\ \A i, k \in VideoIdx :
         i # k => PairOf(qualityOptions[i].format) # PairOf(qualityOptions[k].format)
    /\ \A j \in VideoPos :
         \E i \in VideoIdx :
           /\ PairOf(qualityOptions[i].format) = PairOf(formats[j])
           /\ \E m \in VideoPos :
                /\ qualityOptions[i].format = formats[m]
                /\ \/ OrZero(formats[m].bitrate) > OrZero(formats[j].bitrate)
                   \/ /\ OrZero(formats[m].bitrate) = OrZero(formats[j].bitrate)
                      /\ m <= j
    /\ \A i \in VideoIdx :
         /\ qualityOptions[i].format.hasVideo
         /\ qualityOptions[i].requiresMerge = ~qualityOptions[i].format.hasAudio

\* a catalog where two video descriptors share a pair, the later one with the
\* higher bitrate, next to a descriptor of the same tier with the other flag
C10_Witness ==
  /\ Rendered
  /\ \E j, k, m \in VideoPos :
       /\ j < k
       /\ PairOf(formats[j]) = PairOf(formats[k])
       /\ OrZero(formats[j].bitrate) < OrZero(formats[k].bitrate)
       /\ OrZero(formats[m].height) = OrZero(formats[j].height)
       /\ formats[m].hasAudio # formats[j].hasAudio
  /\ Cardinality(VideoIdx) = 2

(***************************************************************************)
(* Properties of downloadVideo's branches (Spec)                           *)
(***************************************************************************)
\* the downloadVideo call of attempt a is made in this step
Starts(a) == attempts[a].pc = "unused" /\ attempts'[a].pc # "unused"

NoAudioForMerge == Message("No audio stream available for merging", "")

\* C11: a merge download on a catalog without audio-only descriptor fails
\* with the no-audio error, stage idle, no transfer started and the engine
\* untouched; otherwise the descriptor fetched as audio is the one the
\* selector offers as its audio option, of maximal bitrate among the
\* audio-only descriptors.
C11_MergeAudio ==
  /\ [][\A a \in Attempts :
          (Starts(a) /\ selectedFormat.hasVideo /\ ~selectedFormat.hasAudio) =>
            IF \A j \in 1..Len(videoInfo.formats) : ~AudioOnly(videoInfo.formats[j])
              THEN /\ attempts'[a].pc = "ended"
                   /\ attempts'[a].outcome = "failed"
                   /\ error' = NoAudioForMerge
                   /\ progress' = Stage("idle", 0)
                   /\ engine' = engine
                   /\ ffmpegRef' = ffmpegRef
              ELSE /\ attempts'[a].pc = "video"
                   /\ buildOptions(videoInfo.formats)[1].group = "audio"
                   /\ attempts'[a].bestAudio = buildOptions(videoInfo.formats)[1].format
                   /\ \A j \in 1..Len(videoInfo.formats) :
                        AudioOnly(videoInfo.formats[j]) =>
                          OrZero(videoInfo.formats[j].bitrate)
                            <= OrZero(attempts'[a].bestAudio.bitrate)]_vars
  /\ [][\A a \in Attempts :
          attempts'[a].pc = "audio" =>
            /\ attempts[a].pc \in {"video", "audio"}
            /\ attempts'[a].bestAudio = attempts[a].bestAudio]_vars

\* an attempt fetching its audio stream, on the catalog whose audio-only
\* descriptors are listed in ascending bitrate
C11_Witness ==
  \E a \in Attempts :
    /\ attempts[a].pc = "audio"
    /\ videoInfo # Null
    /\ attempts[a].bestAudio = buildOptions(videoInfo.formats)[1].format
    /\ attempts[a].bestAudio.bitrate = 128000
    /\ \E j \in 1..Len(videoInfo.formats) :
         AudioOnly(videoInfo.formats[j]) /\ videoInfo.formats[j].bitrate = 64000

\* a merge download that failed for lack of an audio-only descriptor
C11_FailFastReached ==
  \E a \in Attempts :
    /\ attempts[a].pc = "ended"
    /\ attempts[a].outcome = "failed"
    /\ error = NoAudioForMerge
    /\ progress = Stage("idle", 0)
    /\ engine = NoEngine

(***************************************************************************)
(* Properties of the merge download's sequence (Spec)                      *)
(***************************************************************************)
\* the progress callback of attempt a is invoked in this step
Reports(a) ==
  /\ InTransfer(a)
  /\ attempts'[a].pc = attempts[a].pc
  /\ attempts'[a].t.onProgress
  /\ attempts'[a].t.total > 0
  /\ attempts'[a].t.loaded # attempts[a].t.loaded

\* C12: the audio transfer starts only once the video payload is held, the
\* mux pipeline only once both payloads are held; a value reported during
\* the video transfer lies in 0..50, during the audio transfer in 50..100,
\* and the values an attempt reports never decrease.
C12_Sequence ==
  /\ [](\A a \in Attempts :
          /\ (attempts[a].pc = "video") => (~attempts[a].videoBlob /\ ~attempts[a].audioBlob)
          /\ (attempts[a].pc = "audio") => (attempts[a].videoBlob /\ ~attempts[a].audioBlob)
          /\ Merging(a) => (attempts[a].videoBlob /\ attempts[a].audioBlob))
  /\ [][\A a \in Attempts :
          /\ (attempts'[a].pc = "audio" /\ attempts[a].pc # "audio") =>
               /\ attempts[a].pc = "video"
               /\ attempts[a].t.result = Pending
               /\ attempts[a].t.pc \in {"xhr", "proxyBody"}
          /\ (Merging(a)' /\ ~Merging(a)) =>
               /\ attempts[a].pc = "audio"
               /\ attempts[a].t.result = Pending
               /\ attempts[a].t.pc \in {"xhr", "proxyBody"}]_vars
  /\ [][\A a \in Attempts :
          Reports(a) =>
            /\ progress'.stage = "downloading"
            /\ progress'.progress = attempts'[a].reported
            /\ attempts'[a].reported * attempts'[a].t.total
                 = (IF attempts[a].pc = "video" THEN 0 ELSE 50) * attempts'[a].t.total
                     + 50 * attempts'[a].t.loaded
            /\ (attempts[a].pc = "video") => (progress'.progress \in 0..50)
            /\ (attempts[a].pc = "audio") => (progress'.progress \in 50..100)]_vars
  /\ [][\A a \in Attempts :
          (InTransfer(a) /\ InTransfer(a)') =>
            attempts'[a].reported >= attempts[a].reported]_vars

\* an attempt holding the video payload that has reported 75 after half of
\* its audio transfer
C12_Witness ==
  \E a \in Attempts :
    /\ attempts[a].pc = "audio"
    /\ attempts[a].videoBlob
    /\ attempts[a].t.loaded = 1
    /\ attempts[a].t.total = 2
    /\ attempts[a].reported = 75
    /\ progress = Stage("downloading", 75)

(***************************************************************************)
(* Properties of the direct save (Spec)                                    *)
(***************************************************************************)
\* C13: for a muxed or audio-only descriptor the downloadVideo call clicks
\* one anchor pointing at the descriptor's address and ends in stage
\* complete within the same step: no transfer, no proxy request, the engine
\* neither created nor called; an ended attempt does nothing more.
C13_DirectSave ==
  /\ [][\A a \in Attempts :
          (Starts(a) /\ selectedFormat.hasAudio) =>
            /\ attempts'[a].pc = "ended"
            /\ attempts'[a].outcome = "complete"
            /\ attempts'[a].clicks = <<[kind |-> "format", itag |-> selectedFormat.itag]>>
            /\ attempts'[a].t.pc = "xhr"
            /\ attempts'[a].t.proxyRequests = 0
            /\ progress' = Stage("complete", 100)
            /\ engine' = engine
            /\ ffmpegRef' = ffmpegRef]_vars
  /\ [][\A a \in Attempts :
          attempts[a].pc = "ended" => attempts'[a] = attempts[a]]_vars

\* the audio-only descriptor saved directly: one click on its address, stage
\* complete, the engine never created
C13_Witness ==
  /\ videoInfo # Null
  /\ selectedFormat # Null
  /\ AudioOnly(selectedFormat)
  /\ \E a \in Attempts :
       /\ attempts[a].pc = "ended"
       /\ attempts[a].outcome = "complete"
       /\ attempts[a].clicks = <<FormatHref(selectedFormat)>>
  /\ progress = Stage("complete", 100)
  /\ engine = NoEngine
  /\ ffmpegRef = 0

(***************************************************************************)
(* Properties of one transfer's progress events (SpecBlob)                 *)
(***************************************************************************)
\* C14: a transfer of unknown total length never invokes onProgress; with a
\* known total the value passed is loaded / total * 100.
C14_ProgressNeedsTotal ==
  /\ (blob.total = 0) => (~blob.called /\ blob.lastValue = 0)
  /\ blob.called =>
       /\ blob.onProgress
       /\ blob.total > 0
       /\ blob.lastValue * blob.total = blob.loaded * 100

\* a transfer with a callback and no declared length that has received
\* bytes and settled with its payload
C14_Witness ==
  /\ blob.onProgress
  /\ blob.total = 0
  /\ blob.loaded > 0
  /\ ~blob.called
  /\ blob.result = Resolved

\* a transfer of known length that passed 50 to its callback
C14_HalfReported ==
  /\ blob.onProgress
  /\ blob.total = 2
  /\ blob.loaded = 1
  /\ blob.called
  /\ blob.lastValue = 50

(***************************************************************************)
(* Properties of GET /api/info (SpecInfo)                                  *)
(***************************************************************************)
Answered == info.pc = "responded"

\* a non-empty string of id-class characters only
BareToken(s) == s # <<>> /\ \A i \in 1..Len(s) : s[i] \in IdClass

\* the string holds a URL shape followed by at least one capturable character
UrlShaped(s) ==
  \E i \in 1..Len(s) : s[i] = ShortLink /\ i < Len(s) /\ s[i + 1] \notin Terminators

\* C15: an input that is neither URL-shaped nor a bare token is answered
\* INVALID_URL; a bare token that is not 11 characters long is answered
\* INVALID_VIDEO_ID; an id handed to the service is 11 id-class characters.
C15_ResolveErrors ==
  /\ (Answered /\ info.hasUrl /\ info.url # <<>>
        /\ ~UrlShaped(info.url) /\ ~BareToken(info.url)) =>
       info.answer.error = "INVALID_URL"
  /\ (Answered /\ info.hasUrl /\ BareToken(info.url) /\ Len(info.url) # 11) =>
       info.answer.error = "INVALID_VIDEO_ID"
  /\ (info.getInfoCalls > 0) =>
       (Len(info.videoId) = 11 /\ \A i \in 1..11 : info.videoId[i] \in IdClass)

\* the parts of C15 the handler does satisfy
C15_UrlAndSuccess ==
  /\ (Answered /\ info.hasUrl /\ info.url # <<>>
        /\ ~UrlShaped(info.url) /\ ~BareToken(info.url)) =>
       info.answer.error = "INVALID_URL"
  /\ (info.getInfoCalls > 0) =>
       (Len(info.videoId) = 11 /\ \A i \in 1..11 : info.videoId[i] \in IdClass)

\* "short" answered INVALID_URL
C15_ShortIsInvalidUrl ==
  /\ Answered
  /\ info.url = ExampleShort
  /\ info.answer.error = "INVALID_URL"

\* a short-link whose captured segment is not an id: INVALID_VIDEO_ID
C15_InvalidVideoIdReached ==
  /\ Answered
  /\ UrlShaped(info.url)
  /\ info.answer.error = "INVALID_VIDEO_ID"

\* positions of the candidates that are not WebP and carry an http address
Playable ==
  {i \in 1..Len(info.candidates) :
     /\ info.candidates[i].mimeType # "image/webp"
     /\ info.candidates[i].container # "webp"
     /\ info.candidates[i].url = "https"}

\* C16: the formats of a successful answer are exactly the candidates that
\* are not WebP and have an http address, in their original order; a
\* resolved request is a success even when none remain.
C16_CatalogFilter ==
  /\ (Answered /\ info.candidates # <<>>) => info.answer.status = 200
  /\ (Answered /\ info.answer.status = 200) =>
       /\ info.answer.error = ""
       /\ Len(info.answer.formats) = Cardinality(Playable)
       /\ \A k \in 1..Len(info.answer.formats) :
            /\ info.answer.formats[k].itag \in Playable
            /\ info.answer.formats[k].url = info.candidates[info.answer.formats[k].itag].url
       /\ \A k, m \in 1..Len(info.answer.formats) :
            k < m => info.answer.formats[k].itag < info.answer.formats[m].itag

\* a WebP candidate and one with an empty address: success, nothing listed
C16_Witness ==
  /\ Answered
  /\ Len(info.candidates) = 2
  /\ info.candidates[1].container = "webp"
  /\ info.candidates[2].url = ""
  /\ info.answer = Answer(200, "", <<>>)

\* C17: every format of a catalog has hasVideo or hasAudio.
C17_SomeMedia ==
  Answered =>
    \A k \in 1..Len(info.answer.formats) :
      info.answer.formats[k].hasVideo \/ info.answer.formats[k].hasAudio

\* C20: ytdl.getInfo is called at most once per request, never for a
\* request answered MISSING_URL, INVALID_URL or INVALID_VIDEO_ID and only
\* with an id of 11 id-class characters; its settling answers the request
\* in the same step, without another call.
C20_OneServiceCall ==
  /\ [](/\ info.getInfoCalls <= 1
        /\ (info.answer.error \in {"MISSING_URL", "INVALID_URL", "INVALID_VIDEO_ID"}) =>
             info.getInfoCalls = 0
        /\ (info.getInfoCalls = 1) =>
             /\ info.hasUrl
             /\ Len(info.videoId) = 11
             /\ \A i \in 1..Len(info.videoId) : info.videoId[i] \in IdClass)
  /\ [][(info.pc = "getInfo" /\ info' # info) =>
          /\ info'.pc = "responded"
          /\ info'.getInfoCalls = info.getInfoCalls]_vars
  /\ [][(info.pc = "responded") => (info' = info)]_vars

\* a short-link url whose service call failed: one call, answered at once
C20_Witness ==
  /\ Answered
  /\ UrlShaped(info.url)
  /\ info.getInfoCalls = 1
  /\ info.answer.error = "RATE_LIMITED"

\* a short-link with a 10-character segment answered without a call
C20_RefusedWithoutCall ==
  /\ Answered
  /\ UrlShaped(info.url)
  /\ info.answer.error = "INVALID_VIDEO_ID"
  /\ info.getInfoCalls = 0

(***************************************************************************)
(* Properties of GET /api/download (SpecProxy)                             *)
(***************************************************************************)
\* the relay answered with a streamed body
Streamed == relay.pc = "responded" /\ relay.answer.path # "none"

\* C18: on either streaming path a requested range is forwarded upstream
\* and answered 206 with Content-Range; without a range the answer is 200.
C18_RangeForwarded ==
  Streamed =>
    IF relay.range
      THEN /\ relay.upstreamRange
           /\ relay.answer.status = 206
           /\ relay.answer.contentRange
      ELSE relay.answer.status = 200

\* a ranged request served by downloadFromInfo: 206 with Content-Range, the
\* upstream request made without Range
C18_PrimaryIgnoresRange ==
  /\ Streamed
  /\ relay.range
  /\ relay.answer.path = "downloadFromInfo"
  /\ relay.answer.status = 206
  /\ relay.answer.contentRange
  /\ ~relay.upstreamRange

\* C19: downloadFromInfo failing other than with 403 and the direct fetch
\* failing too is answered DOWNLOAD_FAILED (500); a 403 from downloadFromInfo
\* is answered ACCESS_DENIED (403) with no direct fetch.
C19_BothPathsFail ==
  /\ (relay.pc = "responded" /\ relay.firstPath = "failed"
        /\ relay.answer.path = "none") =>
       /\ relay.answer.error = "DOWNLOAD_FAILED"
       /\ relay.answer.status = 500
  /\ (relay.pc = "responded" /\ relay.firstPath = "denied") =>
       /\ relay.answer.error = "ACCESS_DENIED"
       /\ relay.answer.status = 403
       /\ relay.directFetches = 0

\* the part of C19 the handler does satisfy
C19_AccessDenied ==
  (relay.pc = "responded" /\ relay.firstPath = "denied") =>
    /\ relay.answer.error = "ACCESS_DENIED"
    /\ relay.answer.status = 403
    /\ relay.directFetches = 0

\* DOWNLOAD_FAILED is never answered
C19_NoDownloadFailed == relay.answer.error # "DOWNLOAD_FAILED"

\* both paths failed, the upstream status is passed on as FETCH_ERROR
C19_FetchErrorReached ==
  /\ relay.pc = "responded"
  /\ relay.firstPath = "failed"
  /\ relay.directFetches = 1
  /\ relay.answer.error = "FETCH_ERROR"
  /\ relay.answer.status = 403

\* the failure's message holds one of the texts of the first test of the chain
SignatureText ==
  \/ Includes(info.failure, "n transform")
  \/ Includes(info.failure, "signature")
  \/ Includes(info.failure, "decipher")

\* C21: a rejected resolution whose message contains 'Video unavailable'
\* and no signature/decipher text is answered VIDEO_NOT_FOUND with status
\* 404, and one whose message contains 'Private video' (and no such text)
\* is answered VIDEO_UNAVAILABLE with status 403.
C21_FailureCodes ==
  (Answered /\ info.rejected /\ ~SignatureText) =>
    /\ Includes(info.failure, "Video unavailable") =>
         (info.answer.error = "VIDEO_NOT_FOUND" /\ info.answer.status = 404)
    /\ Includes(info.failure, "Private video") =>
         (info.answer.error = "VIDEO_UNAVAILABLE" /\ info.answer.status = 403)

\* the chain as the handler runs it: no answer is VIDEO_NOT_FOUND, and every
\* message that contains 'unavailable' or 'Private video' and no
\* signature/decipher text is answered VIDEO_UNAVAILABLE 403
C21_NotFoundNeverAnswered ==
  /\ info.answer.error # "VIDEO_NOT_FOUND"
  /\ (Answered /\ info.rejected /\ ~SignatureText
        /\ (Includes(info.failure, "unavailable")
              \/ Includes(info.failure, "Private video"))) =>
       (info.answer.error = "VIDEO_UNAVAILABLE" /\ info.answer.status = 403)

\* 'Video unavailable' answered VIDEO_UNAVAILABLE 403
C21_UnavailableAnswered ==
  /\ Answered
  /\ info.rejected
  /\ info.failure = Failure({"Video unavailable", "unavailable"}, 0)
  /\ info.answer = Answer(403, "VIDEO_UNAVAILABLE", <<>>)

\* the other codes of the chain are each produced
C21_PrivateAnswered ==
  /\ Answered
  /\ info.failure = Failure({"Private video"}, 429)
  /\ info.answer = Answer(403, "VIDEO_UNAVAILABLE", <<>>)

C21_AgeRestrictedAnswered ==
  /\ Answered
  /\ info.failure = Failure({"Sign in to confirm your age"}, 429)
  /\ info.answer = Answer(403, "AGE_RESTRICTED", <<>>)

C21_RateLimitedAnswered ==
  /\ Answered
  /\ info.failure = Failure({}, 429)
  /\ info.answer = Answer(429, "RATE_LIMITED", <<>>)

C21_SignatureAnswered ==
  /\ Answered
  /\ info.failure = Failure({"Video unavailable", "unavailable", "signature"}, 0)
  /\ info.answer = Answer(500, "SIGNATURE_ERROR", <<>>)

(***************************************************************************)
(* Stages of the session that cannot be left (Spec)                        *)
(***************************************************************************)
\* an operation is awaited: the info request or a downloadVideo call
PendingOperation == infoPc = "pending" \/ \E a \in Attempts : Running(a)

\* the Cancel button is rendered
CancelShown == videoInfo # Null /\ progress.stage \notin {"idle", "complete"}

\* stage idle with the Fetch Info button or the Download button enabled
IdleReady ==
  /\ progress.stage = "idle"
  /\ ~isLoading \/ (videoInfo # Null /\ selectedFormat # Null)

\* C22: no stage is a dead end: in every reachable state of the session
\* either stage is idle with a fetch or a download enabled, or something
\* can still lead there: an operation is pending, or the one UI action that
\* is enabled outside idle and changes the stage (Cancel) is offered.
C22_NoDeadEnd == IdleReady \/ PendingOperation \/ CancelShown

\* stage complete with nothing pending is never left: no step changes the
\* stage or starts an operation
C22_CompleteStays ==
  [][(progress.stage = "complete" /\ ~PendingOperation) =>
       (progress'.stage = "complete" /\ ~PendingOperation')]_vars

\* every state that is not of stage complete satisfies C22's condition
C22_OtherStagesLeave ==
  progress.stage # "complete" => (IdleReady \/ PendingOperation \/ CancelShown)

\* the first download of the session has finished: stage complete, nothing
\* pending, Fetch Info and Download disabled, Cancel not rendered
C22_CompleteDeadEnd ==
  /\ progress = Stage("complete", 100)
  /\ started = 1
  /\ attempts[1].outcome = "complete"
  /\ ~PendingOperation
  /\ ~CancelShown
  /\ ~IdleReady
  /\ ~ENABLED Next

====
